---- MODULE Spec2Model ----
(***************************************************************************)
(* Nearby gas station finder: the App shell (App.js), the MapView          *)
(* controller (fetch + enrich cycles, debounced map idle, markers), the    *)
(* places service (searchNearbyGasStations, computeDistancesIfEnabled)     *)
(* and the distance utilities (haversineMeters, formatDistance).           *)
(*                                                                         *)
(* Coordinates are integers in units of 1e-4 degree; distances are whole   *)
(* meters.  Optional JavaScript values (undefined / null) are sequences of *)
(* length 0 or 1: None is <<>>, Some(v) is <<v>>.                          *)
(***************************************************************************)
EXTENDS Integers, Sequences, FiniteSets, TLC

None == <<>>
Some(v) == <<v>>
IsSome(o) == o # <<>>
Val(o) == o[1]

Min(a, b) == IF a <= b THEN a ELSE b

(***************************************************************************)
(* Bounds of the model.                                                    *)
(***************************************************************************)
\* longest place list handed to computeDistancesIfEnabled
MaxPlaces == 2
\* number of environment events (user, map, geolocation, provider answers)
MaxEvents == 4

(***************************************************************************)
(* Coordinates.  P0 is App.js's fallback center (39.8283, -98.5795); the   *)
(* others lie 0.01 degree east, 0.01 degree north and 0.1 degree north.    *)
(***************************************************************************)
Coord(lat, lng) == [lat |-> lat, lng |-> lng]
DefaultCenter == Coord(398283, -985795)
P0 == DefaultCenter
P1 == Coord(398283, -985695)
P2 == Coord(398383, -985795)
P3 == Coord(399283, -985795)
Points == {P0, P1, P2, P3}

(***************************************************************************)
(* utils/distance.js                                                       *)
(***************************************************************************)
\* R * 2 * atan2(sqrt(a), sqrt(1 - a)) of the source, evaluated in IEEE
\* doubles for the points of the model and rounded to whole meters.
HaversineTable ==
  [pq \in Points \X Points |->
     LET p == pq[1]
         q == pq[2]
         pair(a, b) == (p = a /\ q = b) \/ (p = b /\ q = a)
     IN  IF p = q THEN 0
         ELSE IF pair(P0, P1) THEN 854
         ELSE IF pair(P0, P2) THEN 1112
         ELSE IF pair(P0, P3) THEN 11119
         ELSE IF pair(P1, P2) THEN 1402
         ELSE IF pair(P1, P3) THEN 11152
         ELSE 10008]

haversineMeters(lat1, lon1, lat2, lon2) ==
  HaversineTable[<<Coord(lat1, lon1), Coord(lat2, lon2)>>]

\* Whole meters m in 1000..9999 with m % 100 = 50 whose quotient m / 1000 is a
\* double just below the decimal tie, so that toFixed(1) rounds it down.
ToFixed1TiesDown ==
  {1150, 1450, 1650, 1950, 2050, 2150, 2550, 2650, 3050, 3150, 3550, 3650,
   4050, 4350, 4550, 4850, 5050, 5350, 5550, 5850, 6050, 6350, 6550, 6850,
   7050, 7350, 7550, 7850, 8350, 8450, 8850, 8950, 9350, 9450, 9850, 9950}

\* a conversion that cuts the digits after the first decimal
ToFixed1_Truncates(m) ==
  ToString(m \div 1000) \o "." \o ToString((m \div 100) % 10)

\* (m / 1000).toFixed(1) for whole meters m
ToFixed1(m) ==
  LET tenths == IF m \in ToFixed1TiesDown THEN m \div 100 ELSE (m + 50) \div 100
  IN  ToString(tenths \div 10) \o "." \o ToString(tenths % 10)

\* (m / 1000).toFixed(0) for whole meters m: an exact .5 rounds up
ToFixed0(m) == ToString((m + 500) \div 1000)

\* formatDistance(meters); the argument is an optional whole number of meters
formatDistance(meters) ==
  IF ~IsSome(meters) THEN ""
  ELSE IF Val(meters) < 1000 THEN ToString(Val(meters)) \o " m"
  ELSE \* km < 10 is meters < 10000
       (IF Val(meters) < 10000 THEN ToFixed1(Val(meters)) ELSE ToFixed0(Val(meters)))
         \o " km"

(***************************************************************************)
(* Places as the provider returns them.  shape says where the position     *)
(* lives: "geometry" (p.geometry.location, a LatLng object), "location"    *)
(* (p.location, a plain object) or "none" (only vicinity / name).          *)
(***************************************************************************)
RawPlace(id, name, shape, pos) ==
  [place_id |-> id, name |-> name, shape |-> shape, pos |-> pos]
S1 == RawPlace("s1", "Shell", "geometry", Some(P1))
S2 == RawPlace("s2", "Exxon", "geometry", Some(P2))
S3 == RawPlace("s3", "Chevron", "geometry", Some(P3))
S4 == RawPlace("s4", "Citgo", "location", Some(P2))
S5 == RawPlace("s5", "Sunoco", "none", None)
Catalog == {S1, S2, S3, S4, S5}

SeqsUpTo(S, n) == UNION {[1..k -> S] : k \in 0..n}

(***************************************************************************)
(* The Distance Matrix provider's answer to one getDistanceMatrix call.    *)
(***************************************************************************)
Element(v, t, d) ==
  [distance |-> Some([value |-> v, text |-> t]), duration |-> Some([text |-> d])]
\* an element with a per-destination failure status: no distance, no duration
ElementNotFound == [distance |-> None, duration |-> None]
ElementPool ==
  {Element(1200, "1.2 km", "3 mins"), Element(2500, "2.5 km", "6 mins"),
   Element(900, "", "2 mins"), ElementNotFound}

DMThrows == [kind |-> "throw", status |-> "", res |-> None]
DMStatus(s, res) == [kind |-> "callback", status |-> s, res |-> res]
DMAnswers(n) ==
  {DMThrows, DMStatus("OVER_QUERY_LIMIT", None), DMStatus("OK", None),
   DMStatus("OK", Some([rows |-> <<>>]))}
  \cup {DMStatus("OK", Some([rows |-> <<[elements |-> els]>>])) :
          els \in SeqsUpTo(ElementPool, n + 1)}

(***************************************************************************)
(* services/placesService.js: computeDistancesIfEnabled                    *)
(***************************************************************************)
\* a guard that does not look at the origins
UsesDistanceMatrix_IgnoresOrigin(origins, places, flags) ==
  flags.enableDistanceMatrix /\ Len(places) > 0

\* a guard that does not look at the feature flag
UsesDistanceMatrix_IgnoresFlag(origins, places, flags) ==
  Len(origins) > 0 /\ Len(places) > 0

\* the guard of the network-aware branch
UsesDistanceMatrix(origins, places, flags) ==
  flags.enableDistanceMatrix /\ Len(origins) > 0 /\ Len(places) > 0

\* the Promise around getDistanceMatrix rejects, or the try block throws
DistanceMatrixFailed(dm) ==
  dm.kind = "throw" \/ dm.status # "OK" \/ ~IsSome(dm.res)

\* response.rows?.[0]?.elements || []
ResponseElements(dm) ==
  LET rows == Val(dm.res).rows
  IN  IF Len(rows) = 0 THEN <<>> ELSE rows[1].elements

Enriched(p, distanceMeters, distanceText, durationText) ==
  [place_id |-> p.place_id, name |-> p.name, shape |-> p.shape, pos |-> p.pos,
   distanceMeters |-> distanceMeters, distanceText |-> distanceText,
   durationText |-> durationText]

\* a provider answer whose elements are shifted by one against the destinations
ElementAt_OffByOne(distances, idx) ==
  IF idx + 1 <= Len(distances) THEN Some(distances[idx + 1]) ELSE None

\* const el = distances[idx]: undefined beyond the end of the array
ElementAt(distances, idx) ==
  IF idx <= Len(distances) THEN Some(distances[idx]) ELSE None

\* the body of places.map((p, idx) => ...) on the network-aware path
MatrixPlace(p, idx, distances) ==
  LET el == ElementAt(distances, idx)
      dist == IF IsSome(el) THEN Val(el).distance ELSE None
      dmMeters == IF IsSome(dist) THEN Some(Val(dist).value) ELSE None
      dmText == IF IsSome(dist) THEN Val(dist).text ELSE ""
      durText == IF IsSome(el) /\ IsSome(Val(el).duration)
                 THEN Some(Val(Val(el).duration).text) ELSE None
  IN  Enriched(p, dmMeters,
               IF dmText # "" THEN Some(dmText)
               ELSE IF IsSome(dmMeters) THEN Some(formatDistance(dmMeters))
               ELSE None,
               durText)

\* the body of places.map((p) => ...) of the haversine fallback
HaversinePlace(p, origins) ==
  LET meters == IF Len(origins) > 0 /\ p.shape \in {"geometry", "location"}
                THEN Some(haversineMeters(origins[1].lat, origins[1].lng,
                                          Val(p.pos).lat, Val(p.pos).lng))
                ELSE None
  IN  Enriched(p, meters,
               IF IsSome(meters) THEN Some(formatDistance(meters)) ELSE None,
               None)

HaversineFallback(origins, places) ==
  [i \in 1..Len(places) |-> HaversinePlace(places[i], origins)]

\* a result zipped with the provider's elements: as long as the shorter list
MatrixResult_ZipShortest(places, dm) ==
  [i \in 1..Min(Len(places), Len(ResponseElements(dm))) |->
     MatrixPlace(places[i], i, ResponseElements(dm))]

MatrixResult(places, dm) ==
  [i \in 1..Len(places) |-> MatrixPlace(places[i], i, ResponseElements(dm))]

\* an enrichment that writes the distance fields into the input objects
PlacesAfterCall_InPlace(places) ==
  [i \in 1..Len(places) |-> Enriched(places[i], None, None, None)]

\* the caller's list after the call: places.map builds a new array and
\* { ...p, ... } a new object for every place, nothing is assigned to an input
PlacesAfterCall(places) == places

\* a fallback that has lost the origin of the failed network-aware attempt
computeDistancesIfEnabled_FallbackLosesOrigin(origins, places, flags, dm) ==
  IF UsesDistanceMatrix(origins, places, flags)
  THEN IF DistanceMatrixFailed(dm) THEN HaversineFallback(<<>>, places)
       ELSE MatrixResult(places, dm)
  ELSE HaversineFallback(origins, places)

\* dm is the provider's answer; it is read only when the call is made
computeDistancesIfEnabled(origins, places, flags, dm) ==
  IF UsesDistanceMatrix(origins, places, flags) /\ ~DistanceMatrixFailed(dm)
  THEN MatrixResult(places, dm)
  ELSE HaversineFallback(origins, places)

\* an enrichment whose catch block rethrows the provider's failure
AwaitComputeDistances_Rethrows(origins, places, flags, dm) ==
  [ok |-> ~(UsesDistanceMatrix(origins, places, flags) /\ DistanceMatrixFailed(dm)),
   list |-> computeDistancesIfEnabled(origins, places, flags, dm)]

\* await computeDistancesIfEnabled(...) in fetchStations: the async function
\* catches everything its network-aware branch throws, so the await never
\* throws into fetchStations' catch
AwaitComputeDistances(origins, places, flags, dm) ==
  [ok |-> TRUE, list |-> computeDistancesIfEnabled(origins, places, flags, dm)]

(***************************************************************************)
(* computeDistancesIfEnabled as a function of its inputs: one call with    *)
(* drawn arguments, answered by the provider when the call reaches it.     *)
(***************************************************************************)
VARIABLES callOrigins, callPlaces, callFlags, callPc, callDM, callResult

callVars == <<callOrigins, callPlaces, callFlags, callPc, callDM, callResult>>

Flags == {[enableDistanceMatrix |-> b] : b \in BOOLEAN}
Origins == {<<>>, <<P0>>, <<P1>>}

CallInit ==
  /\ callOrigins \in Origins
  /\ callPlaces \in SeqsUpTo(Catalog, MaxPlaces)
  /\ callFlags \in Flags
  /\ callPc = "called"
  /\ callDM = None
  /\ callResult = None

(***************************************************************************)
(* services/placesService.js: searchNearbyGasStations                      *)
(***************************************************************************)
maxMarkers == 50
\* the radius fetchStations asks for, in meters
radius == 5000

\* the nearbySearch callback: status and results (None when not an array)
PlacesAnswer(status, results) ==
  [kind |-> "callback", status |-> status, results |-> results]
\* the try block throws before or inside service.nearbySearch
PlacesThrows == [kind |-> "throw", status |-> "", results |-> None]

\* a slice that keeps the last entries instead of the first ones
Take_Tail(s, n) ==
  LET k == IF n < 0 THEN 0 ELSE Min(Len(s), n)
  IN  [i \in 1..k |-> s[Len(s) - k + i]]

\* s.slice(0, n): a negative n counts from the end of the array
Take(s, n) ==
  LET end == IF n < 0 THEN (IF Len(s) + n < 0 THEN 0 ELSE Len(s) + n)
             ELSE Min(Len(s), n)
  IN  [i \in 1..end |-> s[i]]

\* a search that looks at the status only and reads a missing array as empty
searchNearbyGasStations_AcceptsNonArray(answer, limit) ==
  IF answer.kind = "throw" \/ answer.status # "OK"
  THEN [ok |-> FALSE, places |-> <<>>]
  ELSE [ok |-> TRUE,
        places |-> IF IsSome(answer.results) THEN Take(Val(answer.results), limit)
                   ELSE <<>>]

\* [ok |-> FALSE] is the rejected promise, [ok |-> TRUE, places |-> ..] the
\* resolved one
searchNearbyGasStations(answer, limit) ==
  IF answer.kind = "throw" \/ answer.status # "OK" \/ ~IsSome(answer.results)
  THEN [ok |-> FALSE, places |-> <<>>]
  ELSE [ok |-> TRUE, places |-> Take(Val(answer.results), limit)]

(***************************************************************************)
(* searchNearbyGasStations as a function of its inputs: one call with a    *)
(* drawn limit, answered by the Places provider.                           *)
(***************************************************************************)
VARIABLES searchAnswer, searchLimit, searchPc, searchResult

searchVars == <<searchAnswer, searchLimit, searchPc, searchResult>>

(***************************************************************************)
(* formatDistance as a function of its input: one call with a drawn        *)
(* argument, null or a whole number of meters.                             *)
(***************************************************************************)
VARIABLES fmtMeters, fmtPc, fmtResult

fmtVars == <<fmtMeters, fmtPc, fmtResult>>

\* largest number of meters a call is made with
MaxMeters == 12000

FormatInit ==
  /\ fmtMeters \in {None} \cup {Some(m) : m \in 0..MaxMeters}
  /\ fmtPc = "called"
  /\ fmtResult = ""

FormatUnused ==
  /\ fmtMeters = None
  /\ fmtPc = "unused"
  /\ fmtResult = ""

(***************************************************************************)
(* StationList on its own: the length of the stations prop and the page    *)
(* state.  The list is replaced by its parent, the buttons are clicked by  *)
(* the user; the component renders between any two of these.               *)
(***************************************************************************)
VARIABLES
  stationsLength,   \* stations.length of the prop of the latest render
  page              \* useState(1)

pageVars == <<stationsLength, page>>

pageSize == 10

\* Math.max(1, Math.ceil(length / pageSize))
pages(length) == IF length = 0 THEN 1 ELSE (length + pageSize - 1) \div pageSize

\* the positions (from 1) of the stations in stations.slice(start, start + pageSize)
view(length, p) ==
  LET start == (p - 1) * pageSize
  IN  {i \in 1..length : start < i /\ i <= start + pageSize}

Max(a, b) == IF a >= b THEN a ELSE b

handleNext(p, n) == Min(p + 1, n)
handlePrev(p) == Max(p - 1, 1)

PageInit ==
  /\ stationsLength = 0
  /\ page = 1

PageUnused ==
  /\ stationsLength = 0
  /\ page = 1

(***************************************************************************)
(* hooks/useGoogleMaps.js: useGeolocation on its own.  Requests are made   *)
(* by locate (at mount and by refresh) and answered by the browser.        *)
(***************************************************************************)
VARIABLES
  geoSupported,     \* 'geolocation' in navigator
  coords,           \* hook state: None or Some(coordinate)
  geoError,         \* hook state: None or Some(error code)
  requestRef,       \* the id of the latest request
  geoPending        \* the ids of the requests not yet answered

geoVars == <<geoSupported, coords, geoError, requestRef, geoPending>>
fnVars == <<callVars, searchVars, geoVars, fmtVars, pageVars>>

\* number of geolocation requests (the one at mount and the refreshes)
MaxRequests == 3

\* err.code of a GeolocationPositionError; 0 stands for any other value
PositionErrorCodes == {0, 1, 2, 3}
GeoPositions == {P1, P2}

\* codeMap[err?.code] || 'UNKNOWN'
mapError(code) ==
  IF code = 1 THEN "PERMISSION_DENIED"
  ELSE IF code = 2 THEN "POSITION_UNAVAILABLE"
  ELSE IF code = 3 THEN "TIMEOUT"
  ELSE "UNKNOWN"

GeoInit ==
  /\ geoSupported \in BOOLEAN
  /\ coords = None
  /\ geoError = None
  /\ requestRef = 0
  /\ geoPending = {}

GeoUnused ==
  /\ geoSupported = TRUE
  /\ coords = None
  /\ geoError = None
  /\ requestRef = 0
  /\ geoPending = {}

\* longest result list the Places provider answers with
MaxResults == 3
\* largest limit a call is made with
MaxLimit == 3

SearchStatuses == {"OK", "ZERO_RESULTS"}
SearchResults ==
  {Some(r) : r \in SeqsUpTo({S1, S2, S3}, MaxResults)} \cup {None}

SearchInit ==
  /\ searchAnswer \in {PlacesAnswer(st, r) : st \in SearchStatuses, r \in SearchResults}
                        \cup {PlacesThrows}
  /\ searchLimit \in 0..MaxLimit
  /\ searchPc = "called"
  /\ searchResult = None

SearchUnused ==
  /\ searchAnswer = PlacesAnswer("OK", None)
  /\ searchLimit = 0
  /\ searchPc = "unused"
  /\ searchResult = None

(***************************************************************************)
(* The running application: App (App.js), MapView and its hooks.           *)
(***************************************************************************)
VARIABLES
  mounted,          \* the first render's effects have run
  unmounted,        \* the tree has been unmounted (effect cleanups have run)
  renderPending,    \* a state setter has scheduled a render of App
  changed,          \* the effect dependencies that differ from the last commit
  status,           \* useGoogleMaps: "idle" | "loading" | "ready" | "error"
  userLocation,     \* useGeolocation coords: None or Some(coordinate)
  mapCenter,        \* App state: None or Some(coordinate)
  stations,         \* App state: the published list
  selectedStation,  \* App state: None or Some(place)
  loading,          \* App state
  listError,        \* App state: "" or the message
  flags,            \* App: the parsed feature flags
  mapRef,           \* MapView: None or Some(live center of the map)
  mapMoving,        \* the map has moved and will emit 'idle'
  idleTimerRef,     \* number of pending debounce timeouts
  markersRef,       \* MapView: the registry of place markers, in order
  onMap,            \* the handles of the place markers that are on the map
  prevMarkers,      \* history: the place ids of the registry before the last paint
  bounceTimers,     \* the handles of the registered markers with a pending 1400 ms timeout
  userMarkerRef,    \* MapView: None or Some(the user-position marker)
  userMarkers,      \* number of user-position markers on the map
  infoWindowRef,    \* MapView: None or Some(the info window: its anchor, if open)
  prevAnchor,       \* history: the info window's anchor before the last marker click
  created,          \* history: the maps, info windows and 'idle' listeners made so far
  cycles,           \* the fetchStations invocations still awaiting a provider
  nextCycle,        \* the id the next fetchStations invocation gets
  effectCycle,      \* the invocation whose cleanup the fetch effect holds (0: none)
  events,           \* number of environment events so far
  lastEvent,        \* history: the last environment event
  cyclesSince,      \* history: invocations started since the last environment event
  publishedBy,      \* history: the invocation that last called onStationsChanged
  trigger,          \* history: the invocation started by the last triggering event
  burst             \* history: the 'idle' events since the debounce last fired

lifeVars == <<mounted, unmounted>>
appVars == <<lifeVars, renderPending, changed, status, userLocation, mapCenter,
             stations, selectedStation, loading, listError, flags>>
userMarkerVars == <<userMarkerRef, userMarkers>>
markerVars == <<markersRef, onMap, prevMarkers, bounceTimers, userMarkerVars>>
surfaceVars == <<infoWindowRef, prevAnchor, created>>
mapVars == <<mapRef, mapMoving, idleTimerRef, markerVars, surfaceVars>>
cycleVars == <<cycles, nextCycle, effectCycle>>
historyVars == <<events, lastEvent, cyclesSince, publishedBy, trigger, burst>>
sysVars == <<appVars, mapVars, cycleVars, historyVars>>

vars == <<callVars, searchVars, geoVars, fmtVars, pageVars, sysVars>>

\* an init effect that does not look at mapRef.current
InitMapEffectRuns_IgnoresMapRef(st, map, center) ==
  st = "ready" /\ IsSome(center)

\* an init effect that does not look at the script's status
InitMapEffectRuns_IgnoresStatus(st, map, center) ==
  ~IsSome(map) /\ IsSome(center)

\* the init effect's early return: it goes on only when the script is ready,
\* no map has been made yet and a center is known
InitMapEffectRuns(st, map, center) ==
  st = "ready" /\ ~IsSome(map) /\ IsSome(center)

\* what the init effect has made so far
NothingCreated == [maps |-> 0, infoWindows |-> 0, idleListeners |-> 0]

\* the init effect's body: new Map, new InfoWindow, addListener('idle')
InitMapCreates(made) ==
  [maps |-> made.maps + 1, infoWindows |-> made.infoWindows + 1,
   idleListeners |-> made.idleListeners + 1]

\* new google.maps.InfoWindow(): closed, no anchor
InfoWindow == [anchor |-> None]

ErrorMessage == "Failed to load nearby stations. Please try again shortly."

\* the dependencies of MapView's effects that the specification's triggering
\* events change: capability status, center, user position
TriggerDeps == {"status", "center", "userLocation"}

\* what the providers answer in the running application
ProviderResults == {<<>>, <<S1, S2>>, <<S2, S3>>}
PlacesAnswers ==
  {PlacesAnswer("OK", Some(r)) : r \in ProviderResults}
  \cup {PlacesAnswer("UNKNOWN_ERROR", None), PlacesAnswer("OK", None), PlacesThrows}
GoodElements(n) ==
  [i \in 1..n |-> IF i = 1 THEN Element(1200, "1.2 km", "3 mins")
                  ELSE Element(2500, "2.5 km", "6 mins")]
MatrixAnswers(n) ==
  {DMStatus("OVER_QUERY_LIMIT", None),
   DMStatus("OK", Some([rows |-> <<[elements |-> GoodElements(n)]>>]))}
PanTargets == {P0, P1}
FixPositions == {P1, P2}

\* the objects of one resolved list are new objects: obj tells them apart
Tagged(list, id) == [i \in 1..Len(list) |-> [obj |-> id] @@ list[i]]

\* what a Places answer looks like to the caller of nearbySearch
AnswerShape(answer) ==
  IF answer.kind = "throw" THEN "throws"
  ELSE IF answer.status # "OK" THEN "notOK"
  ELSE IF ~IsSome(answer.results) THEN "notArray"
  ELSE "okArray"

NoEvent ==
  [kind |-> "none", id |-> 0, alive |-> FALSE, same |-> FALSE, answer |-> "none",
   hadError |-> FALSE]
\* hadError: the list's error message was set when the event arrived
Event(kind, id, alive, same) ==
  [kind |-> kind, id |-> id, alive |-> alive, same |-> same, answer |-> "none",
   hadError |-> listError # ""]
\* the event of a Places answer carries the answer's shape
AnswerEvent(kind, c, answer) ==
  [kind |-> kind, id |-> c.id, alive |-> c.alive, same |-> FALSE,
   answer |-> AnswerShape(answer), hadError |-> listError # ""]
NoTrigger == [id |-> 0, done |-> None, undisturbed |-> FALSE]
NoBurst == [idles |-> 0, center |-> None, calls |-> 0]

SysInit ==
  /\ mounted = FALSE
  /\ unmounted = FALSE
  /\ renderPending = FALSE
  /\ changed = {}
  /\ status = "idle"
  /\ userLocation = None
  /\ mapCenter = None
  /\ stations = <<>>
  /\ selectedStation = None
  /\ loading = FALSE
  /\ listError = ""
  /\ flags \in Flags
  /\ mapRef = None
  /\ mapMoving = FALSE
  /\ idleTimerRef = 0
  /\ markersRef = <<>>
  /\ onMap = {}
  /\ prevMarkers = <<>>
  /\ bounceTimers = {}
  /\ userMarkerRef = None
  /\ userMarkers = 0
  /\ infoWindowRef = None
  /\ prevAnchor = None
  /\ created = NothingCreated
  /\ cycles = {}
  /\ nextCycle = 1
  /\ effectCycle = 0
  /\ events = 0
  /\ lastEvent = NoEvent
  /\ cyclesSince = 0
  /\ publishedBy = 0
  /\ trigger = NoTrigger
  /\ burst = NoBurst

CallUnused ==
  /\ callOrigins = <<>>
  /\ callPlaces = <<>>
  /\ callFlags = [enableDistanceMatrix |-> FALSE]
  /\ callPc = "unused"
  /\ callDM = None
  /\ callResult = None

\* the network-aware branch is not entered: resolve with the fallback
CallResolveLocal ==
  /\ callPc = "called"
  /\ ~UsesDistanceMatrix(callOrigins, callPlaces, callFlags)
  /\ callPc' = "resolved"
  /\ callResult' = Some(computeDistancesIfEnabled(callOrigins, callPlaces, callFlags, DMThrows))
  /\ callPlaces' = PlacesAfterCall(callPlaces)
  /\ UNCHANGED <<callOrigins, callFlags, callDM>>
  /\ UNCHANGED <<searchVars, geoVars, fmtVars, pageVars, sysVars>>

\* getDistanceMatrix is called and the provider answers (or the call throws)
CallProviderAnswers ==
  /\ callPc = "called"
  /\ UsesDistanceMatrix(callOrigins, callPlaces, callFlags)
  /\ \E dm \in DMAnswers(Len(callPlaces)) :
       /\ callDM' = Some(dm)
       /\ callResult' = Some(computeDistancesIfEnabled(callOrigins, callPlaces, callFlags, dm))
  /\ callPc' = "resolved"
  /\ callPlaces' = PlacesAfterCall(callPlaces)
  /\ UNCHANGED <<callOrigins, callFlags>>
  /\ UNCHANGED <<searchVars, geoVars, fmtVars, pageVars, sysVars>>

\* the nearbySearch callback resolves the promise with the trimmed results
SearchResolves ==
  /\ searchPc = "called"
  /\ searchNearbyGasStations(searchAnswer, searchLimit).ok
  /\ searchPc' = "resolved"
  /\ searchResult' = Some(searchNearbyGasStations(searchAnswer, searchLimit).places)
  /\ UNCHANGED <<searchAnswer, searchLimit, callVars, geoVars, fmtVars, pageVars, sysVars>>

\* the nearbySearch callback rejects the promise
SearchRejects ==
  /\ searchPc = "called"
  /\ ~searchNearbyGasStations(searchAnswer, searchLimit).ok
  /\ searchPc' = "rejected"
  /\ UNCHANGED <<searchAnswer, searchLimit, searchResult, callVars, geoVars, fmtVars,
                 pageVars, sysVars>>

\* locate(): at mount and on every refresh
Locate ==
  /\ requestRef < MaxRequests
  /\ IF ~geoSupported
     THEN /\ geoError' = Some("UNSUPPORTED")
          /\ UNCHANGED <<requestRef, geoPending>>
     ELSE /\ requestRef' = requestRef + 1
          /\ geoPending' = geoPending \cup {requestRef + 1}
          /\ UNCHANGED geoError
  /\ UNCHANGED <<geoSupported, coords, callVars, searchVars, fmtVars, pageVars, sysVars>>

\* callbacks that do not compare their id with the latest request
IsLatestRequest_Always(id, ref) == TRUE

\* the callbacks' check: if (id !== requestRef.current) return
IsLatestRequest(id, ref) == id = ref

\* the success callback of getCurrentPosition for request id
GeoSuccess ==
  /\ \E id \in geoPending, pos \in GeoPositions :
       /\ geoPending' = geoPending \ {id}
       /\ IF ~IsLatestRequest(id, requestRef)
          THEN UNCHANGED <<coords, geoError>>
          ELSE /\ geoError' = None
               /\ coords' = Some(pos)
  /\ UNCHANGED <<geoSupported, requestRef, callVars, searchVars, fmtVars, pageVars, sysVars>>

\* the error callback of getCurrentPosition for request id
GeoFailure ==
  /\ \E id \in geoPending, code \in PositionErrorCodes :
       /\ geoPending' = geoPending \ {id}
       /\ IF ~IsLatestRequest(id, requestRef)
          THEN UNCHANGED geoError
          ELSE geoError' = Some(mapError(code))
  /\ UNCHANGED <<geoSupported, coords, requestRef, callVars, searchVars, fmtVars, pageVars, sysVars>>

\* an environment event: counted, and it ends the quiet period of a trigger
\* unless it is a provider's answer
Happens(e) ==
  /\ events' = events + 1
  /\ lastEvent' = e
  /\ cyclesSince' = 0

Disturbed == [trigger EXCEPT !.undisturbed = FALSE]

(***************************************************************************)
(* App.js                                                                  *)
(***************************************************************************)
\* an effect that waits for the first fix and knows no fallback center
AppInitialCenter_WaitsForFix(location, center) ==
  IF IsSome(location) /\ ~IsSome(center) THEN location ELSE center

\* an effect that moves the center to every position the hook reports
AppInitialCenter_FollowsFix(location, center) ==
  IF IsSome(location) THEN location
  ELSE IF ~IsSome(center) THEN Some(DefaultCenter)
  ELSE center

\* the effect that initializes the center (App.js, deps userLocation, mapCenter)
AppInitialCenter(location, center) ==
  IF IsSome(location) /\ ~IsSome(center) THEN location
  ELSE IF ~IsSome(location) /\ ~IsSome(center) THEN Some(DefaultCenter)
  ELSE center

\* a handler that sets the message of a failure and never clears it
handleStationsUpdate_NeverClears(list, errMsg) ==
  <<list, "Failed to load nearby stations. Please try again shortly.">>

\* handleStationsUpdate(list, errMsg): the new <<stations, listError>>
handleStationsUpdate(list, errMsg) == <<list, errMsg>>

\* handleSelectStation is a new function in every render of App, so the
\* onSelectStation dependency of MapView's fetch effect differs in every render
OnSelectStationChanged == TRUE

(***************************************************************************)
(* MapView (components/StationDetails.jsx)                                 *)
(***************************************************************************)
\* a cleanup that leaves the superseded invocation able to apply its results
EffectCleanup_KeepsAlive(cs, id) == cs

\* the cleanup returned by the fetch effect: alive = false in its invocation
EffectCleanup(cs, id) ==
  {IF c.id = id THEN [c EXCEPT !.alive = FALSE] ELSE c : c \in cs}

\* an invocation that enriches without the user's position
fetchStations_NoOrigin(id, center, location) ==
  [id |-> id, center |-> center, radius |-> 5000, limit |-> 50,
   origins |-> <<>>, phase |-> "query", raw |-> <<>>, alive |-> TRUE]

\* fetchStations() up to its first await: the query is on its way with the
\* effect's center; origins is userLocation ? [userLocation] : [] of the same
\* render, which as an optional value is userLocation itself
fetchStations(id, center, location) ==
  [id |-> id, center |-> center, radius |-> radius, limit |-> maxMarkers,
   origins |-> location, phase |-> "query", raw |-> <<>>, alive |-> TRUE]

\* the fetch effect runs again when one of its dependencies differs
FetchEffectRuns(deps) ==
  deps \cap {"status", "center", "userLocation"} # {} \/ OnSelectStationChanged

\* a sync effect that pans whenever it runs
NeedsPan_Always(current, center) == TRUE

\* the sync effect's needsPan
NeedsPan(current, center) ==
  current.lat # center.lat \/ current.lng # center.lng

\* a handler that sets a new timeout without clearing the pending one
handleIdle_NoClear(timers) == timers + 1

\* handleIdle: clearTimeout of the pending timer, then setTimeout
handleIdle(timers) == 1

\* new google.maps.Marker({position, map, title}): every call makes a new
\* object; the handle names it by the invocation and the index that made it
Marker(handle, place) == [handle |-> handle, place |-> place, animation |-> "none"]

Handles(markers) == {markers[i].handle : i \in 1..Len(markers)}
PlaceIds(markers) == [i \in 1..Len(markers) |-> markers[i].place.place_id]

\* a paint that empties the registry and leaves the old markers on the map
ClearMarkers_LeavesOnMap(shown, markers) == shown

\* markersRef.current.forEach(m => m.setMap(null)): what stays on the map
ClearMarkers(shown, markers) == shown \ Handles(markers)

\* the registry after markersRef.current = [] and enriched.forEach(... push)
PaintMarkers(enriched, id) ==
  [i \in 1..Len(enriched) |-> Marker([obj |-> id, idx |-> i], enriched[i])]

\* an effect that creates a marker whenever a user position is known
UserMarkerEffect_AlwaysCreates(ref, count, location) ==
  IF IsSome(location)
  THEN [ref |-> Some([position |-> Val(location)]), count |-> count + 1]
  ELSE IF IsSome(ref) THEN [ref |-> None, count |-> count - 1]
  ELSE [ref |-> ref, count |-> count]

\* the body of the user-marker effect behind its guard: create the marker or
\* move it when a position is known, remove it when none is
UserMarkerEffect(ref, count, location) ==
  IF IsSome(location)
  THEN IF ~IsSome(ref)
       THEN [ref |-> Some([position |-> Val(location)]), count |-> count + 1]
       ELSE [ref |-> Some([position |-> Val(location)]), count |-> count]
  ELSE IF IsSome(ref) THEN [ref |-> None, count |-> count - 1]
  ELSE [ref |-> ref, count |-> count]

\* markersRef.current.forEach(m => m.setAnimation(null))
ClearAnimations(markers) ==
  [i \in 1..Len(markers) |-> [markers[i] EXCEPT !.animation = "none"]]

\* markersRef.current.find(m => m.getTitle && m.getTitle() && selectedStationId):
\* the index of the first marker whose title is non-empty, 0 when there is none
FindMatch(markers, selectedStationId) ==
  LET hits == {i \in 1..Len(markers) : markers[i].place.name # ""}
  IN  IF hits = {} THEN 0 ELSE CHOOSE i \in hits : \A j \in hits : i <= j

\* the body of the highlight effect behind its guard; selected is the
\* optional selectedStationId
HighlightSelected(markers, selected, hasMap) ==
  LET cleared == ClearAnimations(markers)
      match == IF IsSome(selected) /\ Len(markers) > 0
               THEN FindMatch(markers, Val(selected)) ELSE 0
  IN  IF match # 0 /\ hasMap
      THEN [cleared EXCEPT ![match].animation = "BOUNCE"]
      ELSE cleared

\* first render: the mount effects of useGoogleMaps and App
Mount ==
  /\ ~mounted
  /\ mounted' = TRUE
  /\ UNCHANGED unmounted
  /\ \E s \in {"ready", "error", "loading"} : status' = s
  /\ mapCenter' = AppInitialCenter(userLocation, mapCenter)
  /\ renderPending' = TRUE
  /\ changed' = {"status", "center"}
  /\ UNCHANGED <<userLocation, stations, selectedStation, loading, listError, flags>>
  /\ UNCHANGED <<mapVars, cycleVars, historyVars, fnVars>>

\* a render of App and MapView followed by the effects whose dependencies differ
Commit ==
  /\ mounted /\ ~unmounted /\ renderPending
  /\ LET mapDeps == changed \cap {"status", "center"} # {}
         createMap == /\ mapDeps
                      /\ InitMapEffectRuns(status, mapRef, mapCenter)
         map1 == IF createMap THEN mapCenter ELSE mapRef
         pan == /\ mapDeps
                /\ status = "ready" /\ IsSome(map1) /\ IsSome(mapCenter)
                /\ NeedsPan(Val(map1), Val(mapCenter))
         map2 == IF pan THEN mapCenter ELSE map1
         fetchRuns == FetchEffectRuns(changed)
         cleaned == IF fetchRuns THEN EffectCleanup(cycles, effectCycle) ELSE cycles
         starts == /\ fetchRuns
                   /\ status = "ready" /\ IsSome(map2) /\ IsSome(mapCenter)
         userRuns == /\ changed \cap {"status", "userLocation"} # {}
                     /\ status = "ready" /\ IsSome(map1)
         user == IF userRuns
                 THEN UserMarkerEffect(userMarkerRef, userMarkers, userLocation)
                 ELSE [ref |-> userMarkerRef, count |-> userMarkers]
         highlightRuns == /\ changed \cap {"status", "selectedStationId"} # {}
                          /\ status = "ready"
         selectedStationId == IF IsSome(selectedStation)
                              THEN Some(Val(selectedStation).place_id) ELSE None
         highlighted == IF highlightRuns
                        THEN HighlightSelected(markersRef, selectedStationId, IsSome(map2))
                        ELSE markersRef
         started == fetchStations(nextCycle, Val(mapCenter), userLocation)
     IN  /\ mapRef' = map2
         /\ infoWindowRef' = IF createMap THEN Some(InfoWindow) ELSE infoWindowRef
         /\ created' = IF createMap THEN InitMapCreates(created) ELSE created
         /\ userMarkerRef' = user.ref
         /\ userMarkers' = user.count
         /\ markersRef' = highlighted
         /\ bounceTimers' = bounceTimers
                \cup {highlighted[i].handle : i \in {j \in 1..Len(highlighted) :
                        highlightRuns /\ highlighted[j].animation = "BOUNCE"}}
         /\ mapMoving' = (mapMoving \/ createMap \/ pan)
         /\ cycles' = IF starts THEN cleaned \cup {started} ELSE cleaned
         /\ nextCycle' = IF starts THEN nextCycle + 1 ELSE nextCycle
         /\ effectCycle' = IF ~fetchRuns THEN effectCycle
                           ELSE IF starts THEN nextCycle ELSE 0
         /\ loading' = IF starts THEN TRUE ELSE loading
         /\ renderPending' = (starts /\ ~loading)
         /\ cyclesSince' = IF starts THEN cyclesSince + 1 ELSE cyclesSince
         /\ trigger' = IF starts /\ changed \cap TriggerDeps # {}
                       THEN [id |-> nextCycle, done |-> None, undisturbed |-> TRUE]
                       ELSE trigger
  /\ changed' = {}
  /\ mapCenter' = AppInitialCenter(userLocation, mapCenter)
  /\ UNCHANGED <<lifeVars, status, userLocation, stations, selectedStation,
                 listError, flags>>
  /\ UNCHANGED <<idleTimerRef, onMap, prevMarkers, prevAnchor, events, lastEvent,
                 publishedBy, burst>>
  /\ UNCHANGED fnVars

\* the tree is mounted and no render is scheduled
Quiet == mounted /\ ~unmounted /\ ~renderPending
Ready == Quiet /\ events < MaxEvents

\* useGoogleMaps: the script's load event
ScriptLoaded ==
  /\ Ready /\ status = "loading"
  /\ status' = "ready"
  /\ renderPending' = TRUE
  /\ changed' = changed \cup {"status"}
  /\ Happens(Event("scriptLoaded", 0, FALSE, FALSE))
  /\ trigger' = Disturbed
  /\ UNCHANGED <<lifeVars, userLocation, mapCenter, stations, selectedStation,
                 loading, listError, flags>>
  /\ UNCHANGED <<mapVars, cycleVars, publishedBy, burst, fnVars>>

\* useGoogleMaps: the script's error event
ScriptError ==
  /\ Ready /\ status = "loading"
  /\ status' = "error"
  /\ renderPending' = TRUE
  /\ changed' = changed \cup {"status"}
  /\ Happens(Event("scriptError", 0, FALSE, FALSE))
  /\ trigger' = Disturbed
  /\ UNCHANGED <<lifeVars, userLocation, mapCenter, stations, selectedStation,
                 loading, listError, flags>>
  /\ UNCHANGED <<mapVars, cycleVars, publishedBy, burst, fnVars>>

\* useGeolocation: the success callback of the latest request
GeoFix ==
  /\ Ready
  /\ \E c \in FixPositions : userLocation' = Some(c)
  /\ renderPending' = TRUE
  /\ changed' = changed \cup {"userLocation"}
  /\ Happens(Event("geoFix", 0, FALSE, FALSE))
  /\ trigger' = Disturbed
  /\ UNCHANGED <<lifeVars, status, mapCenter, stations, selectedStation,
                 loading, listError, flags>>
  /\ UNCHANGED <<mapVars, cycleVars, publishedBy, burst, fnVars>>

\* the user drags or zooms the map: its center moves, 'idle' follows later
UserMovesMap ==
  /\ Quiet /\ IsSome(mapRef)
  /\ \E c \in PanTargets \ {Val(mapRef)} : mapRef' = Some(c)
  /\ mapMoving' = TRUE
  /\ Happens(Event("pan", 0, FALSE, FALSE))
  /\ trigger' = Disturbed
  /\ UNCHANGED <<appVars, idleTimerRef, markerVars, surfaceVars, cycleVars,
                 publishedBy, burst, fnVars>>

UserPan == events < MaxEvents /\ UserMovesMap

\* the map's 'idle' event: handleIdle
MapEmitsIdle ==
  /\ Quiet /\ IsSome(mapRef) /\ mapMoving
  /\ mapMoving' = FALSE
  /\ idleTimerRef' = handleIdle(idleTimerRef)
  /\ burst' = [idles |-> IF burst.calls > 0 THEN 1 ELSE burst.idles + 1,
               center |-> mapRef, calls |-> 0]
  /\ Happens(Event("idle", 0, FALSE, FALSE))
  /\ trigger' = Disturbed
  /\ UNCHANGED <<appVars, mapRef, markerVars, surfaceVars, cycleVars, publishedBy,
                 fnVars>>

MapIdle == events < MaxEvents /\ MapEmitsIdle

\* the debounce timeout fires: onCenterChanged(map.getCenter()) -> handleMapIdle
DebounceFires ==
  /\ Quiet /\ idleTimerRef > 0
  /\ idleTimerRef' = idleTimerRef - 1
  /\ mapCenter' = mapRef
  /\ renderPending' = TRUE
  /\ changed' = changed \cup {"center"}
  /\ burst' = [burst EXCEPT !.calls = @ + 1]
  /\ Happens(Event("settle", 0, FALSE, mapRef = mapCenter))
  /\ trigger' = Disturbed
  /\ UNCHANGED <<lifeVars, status, userLocation, stations, selectedStation,
                 loading, listError, flags>>
  /\ UNCHANGED <<mapRef, mapMoving, markerVars, surfaceVars, cycleVars, publishedBy,
                 fnVars>>

TimerFires == events < MaxEvents /\ DebounceFires

\* the tree is unmounted: the cleanups of the effects run.  Of MapView's
\* effects only the fetch effect returns a cleanup; the timeouts set by
\* handleIdle and by the highlight effect stay pending.
Unmount ==
  /\ Ready
  /\ unmounted' = TRUE
  /\ cycles' = EffectCleanup(cycles, effectCycle)
  /\ effectCycle' = 0
  /\ Happens(Event("unmount", 0, FALSE, FALSE))
  /\ trigger' = Disturbed
  /\ UNCHANGED <<mounted, renderPending, changed, status, userLocation, mapCenter,
                 stations, selectedStation, loading, listError, flags>>
  /\ UNCHANGED <<mapVars, nextCycle, publishedBy, burst, fnVars>>

\* the debounce timeout fires after the unmount: map.getCenter() is read and
\* onCenterChanged is called; setMapCenter of the unmounted App changes nothing
TimerFiresAfterUnmount ==
  /\ unmounted /\ events < MaxEvents
  /\ idleTimerRef > 0
  /\ idleTimerRef' = idleTimerRef - 1
  /\ burst' = [burst EXCEPT !.calls = @ + 1]
  /\ Happens(Event("settleAfterUnmount", 0, FALSE, mapRef = mapCenter))
  /\ trigger' = Disturbed
  /\ UNCHANGED <<appVars, mapRef, mapMoving, markerVars, surfaceVars, cycleVars,
                 publishedBy, fnVars>>

\* a click listener that reads the loop's last place instead of its own
ClickedPlace_LastOfLoop(markers, i) == markers[Len(markers)].place

\* the place a marker's click listener passes to onSelectStation: the place
\* of the forEach iteration that made the marker
ClickedPlace(markers, i) == markers[i].place

\* infoWindow.setContent(...); infoWindow.open({ map, anchor: marker })
OpenAt(win, handle) == [win EXCEPT !.anchor = Some(handle)]

\* handleSelectStation(station), as both callers use it
Selects(p) ==
  /\ selectedStation' = Some(p)
  /\ renderPending' = (selectedStation # Some(p))
  /\ changed' = IF IsSome(selectedStation)
                   /\ Val(selectedStation).place_id = p.place_id
                THEN changed ELSE changed \cup {"selectedStationId"}

\* a registered marker is clicked: onSelectStation(place), then the info
\* window opens at the marker
MarkerClick ==
  /\ Ready
  /\ \E i \in 1..Len(markersRef) :
       /\ Selects(ClickedPlace(markersRef, i))
       /\ infoWindowRef' = IF IsSome(infoWindowRef)
                           THEN Some(OpenAt(Val(infoWindowRef), markersRef[i].handle))
                           ELSE infoWindowRef
  /\ prevAnchor' = IF IsSome(infoWindowRef) THEN Val(infoWindowRef).anchor ELSE None
  /\ Happens(Event("markerClick", 0, FALSE, FALSE))
  /\ trigger' = Disturbed
  /\ UNCHANGED <<lifeVars, status, userLocation, mapCenter, stations, loading,
                 listError, flags>>
  /\ UNCHANGED <<mapRef, mapMoving, idleTimerRef, markerVars, created, cycleVars,
                 publishedBy, burst, fnVars>>

\* a list card's View button: handleSelectStation(station)
SelectStation ==
  /\ Ready
  /\ \E i \in 1..Len(stations) : Selects(stations[i])
  /\ Happens(Event("select", 0, FALSE, FALSE))
  /\ trigger' = Disturbed
  /\ UNCHANGED <<lifeVars, status, userLocation, mapCenter, stations, loading,
                 listError, flags>>
  /\ UNCHANGED <<mapVars, cycleVars, publishedBy, burst, fnVars>>

\* the details panel's Close button: setSelectedStation(null)
CloseDetails ==
  /\ Ready /\ IsSome(selectedStation)
  /\ selectedStation' = None
  /\ renderPending' = TRUE
  /\ changed' = changed \cup {"selectedStationId"}
  /\ Happens(Event("close", 0, FALSE, FALSE))
  /\ trigger' = Disturbed
  /\ UNCHANGED <<lifeVars, status, userLocation, mapCenter, stations, loading,
                 listError, flags>>
  /\ UNCHANGED <<mapVars, cycleVars, publishedBy, burst, fnVars>>

\* the highlight's timeout fires: match.setAnimation(null)
BounceTimeout ==
  /\ mounted /\ ~renderPending
  /\ \E h \in bounceTimers :
       /\ bounceTimers' = bounceTimers \ {h}
       /\ markersRef' = [i \in 1..Len(markersRef) |->
                           IF markersRef[i].handle = h
                           THEN [markersRef[i] EXCEPT !.animation = "none"]
                           ELSE markersRef[i]]
  /\ UNCHANGED <<appVars, mapRef, mapMoving, idleTimerRef, onMap, prevMarkers,
                 userMarkerVars, surfaceVars, cycleVars, historyVars, fnVars>>

\* the rest of fetchStations once enrichment has resolved or the query has
\* been rejected: apply if alive, then the finally block
Complete(c, ok, enriched) ==
  /\ cycles' = cycles \ {c}
  /\ loading' = FALSE
  /\ IF c.alive
     THEN /\ LET upd == IF ok THEN handleStationsUpdate(Tagged(enriched, c.id), "")
                        ELSE handleStationsUpdate(<<>>, ErrorMessage)
             IN  /\ stations' = upd[1]
                 /\ listError' = upd[2]
          /\ IF ok
             THEN /\ markersRef' = PaintMarkers(Tagged(enriched, c.id), c.id)
                  /\ onMap' = ClearMarkers(onMap, markersRef)
                               \cup Handles(PaintMarkers(Tagged(enriched, c.id), c.id))
                  /\ prevMarkers' = PlaceIds(markersRef)
                  \* a pending timeout of a removed marker changes nothing any more
                  /\ bounceTimers' = {}
                  /\ UNCHANGED userMarkerVars
             ELSE UNCHANGED markerVars
          /\ publishedBy' = c.id
          /\ renderPending' = TRUE
     ELSE /\ UNCHANGED <<stations, listError, markerVars, publishedBy>>
          /\ renderPending' = loading
  /\ trigger' = IF c.id = trigger.id
                THEN [trigger EXCEPT !.done = Some([ok |-> ok,
                                                   list |-> Tagged(enriched, c.id)])]
                ELSE trigger
  /\ UNCHANGED <<lifeVars, changed, status, userLocation, mapCenter,
                 selectedStation, flags>>
  /\ UNCHANGED <<mapRef, mapMoving, idleTimerRef, surfaceVars, nextCycle,
                 effectCycle, burst, fnVars>>

\* the Places provider answers the query of one invocation
PlacesAnswered ==
  /\ Ready
  /\ \E c \in cycles, answer \in PlacesAnswers :
       /\ c.phase = "query"
       /\ LET found == searchNearbyGasStations(answer, c.limit)
          IN  IF ~found.ok
              THEN /\ Complete(c, FALSE, <<>>)
                   /\ Happens(AnswerEvent("queryFailed", c, answer))
              ELSE IF UsesDistanceMatrix(c.origins, found.places, flags)
              THEN /\ cycles' = (cycles \ {c})
                        \cup {[c EXCEPT !.phase = "matrix", !.raw = found.places]}
                   /\ Happens(AnswerEvent("queryAnswered", c, answer))
                   /\ UNCHANGED <<appVars, mapVars, nextCycle, effectCycle,
                                  publishedBy, trigger, burst, fnVars>>
              ELSE /\ Complete(c, TRUE,
                        AwaitComputeDistances(c.origins, found.places, flags, DMThrows).list)
                   /\ Happens(AnswerEvent("enriched", c, answer))

\* the Distance Matrix provider answers the call of one invocation
MatrixAnswered ==
  /\ Ready
  /\ \E c \in cycles :
       /\ c.phase = "matrix"
       /\ \E dm \in MatrixAnswers(Len(c.raw)) :
            LET out == AwaitComputeDistances(c.origins, c.raw, flags, dm)
            IN  /\ Complete(c, out.ok, IF out.ok THEN out.list ELSE <<>>)
                /\ Happens(Event(IF DistanceMatrixFailed(dm) THEN "matrixFailed"
                                 ELSE "enriched", c.id, c.alive, FALSE))

Init == SysInit /\ CallUnused /\ SearchUnused /\ GeoUnused /\ FormatUnused /\ PageUnused
Next ==
  \/ Mount
  \/ Commit
  \/ ScriptLoaded
  \/ ScriptError
  \/ GeoFix
  \/ UserPan
  \/ MapIdle
  \/ TimerFires
  \/ Unmount
  \/ TimerFiresAfterUnmount
  \/ SelectStation
  \/ MarkerClick
  \/ CloseDetails
  \/ BounceTimeout
  \/ PlacesAnswered
  \/ MatrixAnswered
Spec == Init /\ [][Next]_vars

EnrichInit ==
  /\ CallInit /\ SearchUnused /\ GeoUnused /\ FormatUnused /\ PageUnused /\ SysInit
  /\ flags = [enableDistanceMatrix |-> FALSE]
EnrichNext == CallResolveLocal \/ CallProviderAnswers
EnrichSpec == EnrichInit /\ [][EnrichNext]_vars

(***************************************************************************)
(* The start of the application when no geolocation fix ever arrives: the  *)
(* script loads or fails, renders run, the Places provider answers.  A     *)
(* scheduled render eventually runs, and the provider eventually answers   *)
(* the query of the current invocation with a non-empty list.              *)
(***************************************************************************)
\* number of environment events of a start
MaxStartEvents == 3

StartScriptLoaded == events < MaxStartEvents /\ ScriptLoaded
StartScriptError == events < MaxStartEvents /\ ScriptError
StartPlacesAnswered == events < MaxStartEvents /\ PlacesAnswered

CurrentQueryAnsweredWithPlaces ==
  /\ StartPlacesAnswered
  /\ lastEvent'.kind = "enriched"
  /\ lastEvent'.alive
  /\ Len(stations') > 0

NoFixNext ==
  \/ Mount
  \/ Commit
  \/ StartScriptLoaded
  \/ StartScriptError
  \/ StartPlacesAnswered
NoFixSpec ==
  /\ Init
  /\ [][NoFixNext]_vars
  /\ WF_vars(Mount)
  /\ WF_vars(Commit)
  /\ WF_vars(CurrentQueryAnsweredWithPlaces)

(***************************************************************************)
(* Center synchronization after one user pan: the script loads or fails,   *)
(* renders run, the user moves the map once, the map emits 'idle' after a  *)
(* movement and the debounce timeout fires.  The providers never answer.   *)
(* None of the map's events is capped here.  A scheduled render eventually *)
(* runs, a map that has moved eventually emits 'idle', and a pending       *)
(* timeout eventually fires.                                               *)
(***************************************************************************)
\* the first pan: the map is still where it was created
SinglePan == mapRef = Some(DefaultCenter) /\ UserMovesMap

SyncNext ==
  \/ Mount
  \/ Commit
  \/ ScriptLoaded
  \/ ScriptError
  \/ SinglePan
  \/ MapEmitsIdle
  \/ DebounceFires
SyncSpec ==
  /\ Init /\ [][SyncNext]_vars
  /\ WF_vars(Mount) /\ WF_vars(Commit)
  /\ WF_vars(MapEmitsIdle) /\ WF_vars(DebounceFires)

SearchSpecInit ==
  /\ SearchInit /\ CallUnused /\ GeoUnused /\ FormatUnused /\ PageUnused /\ SysInit
  /\ flags = [enableDistanceMatrix |-> FALSE]
SearchNext == SearchResolves \/ SearchRejects
SearchSpec == SearchSpecInit /\ [][SearchNext]_vars

GeoSpecInit ==
  /\ GeoInit /\ CallUnused /\ SearchUnused /\ FormatUnused /\ PageUnused /\ SysInit
  /\ flags = [enableDistanceMatrix |-> FALSE]
GeoNext == Locate \/ GeoSuccess \/ GeoFailure
GeoSpec == GeoSpecInit /\ [][GeoNext]_vars

\* formatDistance(meters) returns
FormatReturns ==
  /\ fmtPc = "called"
  /\ fmtPc' = "returned"
  /\ fmtResult' = formatDistance(fmtMeters)
  /\ UNCHANGED <<fmtMeters, callVars, searchVars, geoVars, pageVars, sysVars>>

FormatSpecInit ==
  /\ FormatInit /\ CallUnused /\ SearchUnused /\ GeoUnused /\ PageUnused /\ SysInit
  /\ flags = [enableDistanceMatrix |-> FALSE]
FormatNext == FormatReturns
FormatSpec == FormatSpecInit /\ [][FormatNext]_vars

(***************************************************************************)
(* Specification of StationList's pagination.                              *)
(***************************************************************************)
\* the parent renders the list with another stations prop
StationsReplaced ==
  /\ \E length \in 0..maxMarkers : stationsLength' = length
  /\ UNCHANGED <<page, callVars, searchVars, geoVars, fmtVars, sysVars>>

\* the Next button: rendered with pages > 1, disabled on page === pages
ClickNext ==
  /\ pages(stationsLength) > 1
  /\ page # pages(stationsLength)
  /\ page' = handleNext(page, pages(stationsLength))
  /\ UNCHANGED <<stationsLength, callVars, searchVars, geoVars, fmtVars, sysVars>>

\* the Prev button: rendered with pages > 1, disabled on page === 1
ClickPrev ==
  /\ pages(stationsLength) > 1
  /\ page # 1
  /\ page' = handlePrev(page)
  /\ UNCHANGED <<stationsLength, callVars, searchVars, geoVars, fmtVars, sysVars>>

PageSpecInit ==
  /\ PageInit /\ CallUnused /\ SearchUnused /\ GeoUnused /\ FormatUnused /\ SysInit

PageNext == StationsReplaced \/ ClickNext \/ ClickPrev
PageSpec == PageSpecInit /\ [][PageNext]_vars

(***************************************************************************)
(* Properties of the running application (checked under Spec).             *)
(***************************************************************************)
LatestCycle == nextCycle - 1
Settled == lastEvent.kind = "settle" /\ ~renderPending

\* C1: a superseded invocation never publishes and never touches the markers,
\* whether it ends in success or in an error: every step that changes the
\* published list, the error message, the registered markers or the markers
\* on the map is the completion of the
\* invocation started last, and in every state the only invocation still able
\* to apply results is the one started last.
C1_StaleNeverApplies ==
  [][/\ \A c \in cycles' : c.alive => c.id = nextCycle' - 1
     /\ (\/ stations' # stations
         \/ Handles(markersRef') # Handles(markersRef)
         \/ onMap' # onMap
         \/ listError' # listError
         \/ publishedBy' # publishedBy)
        => /\ publishedBy' = LatestCycle
           /\ lastEvent'.id = LatestCycle
           /\ lastEvent'.alive]_vars

\* an older invocation fails after a newer one has published, and changes nothing
C1_Witness ==
  /\ lastEvent.kind = "queryFailed"
  /\ ~lastEvent.alive
  /\ lastEvent.id < publishedBy
  /\ Len(stations) = 2
  /\ Len(markersRef) = 2
  /\ listError = ""

\* C2: once the invocation started by the last triggering event and all
\* earlier ones have completed, the published list is that invocation's result.
C2_LastTriggerWins ==
  (/\ IsSome(trigger.done)
   /\ Val(trigger.done).ok
   /\ \A c \in cycles : c.id > trigger.id)
  => stations = Val(trigger.done).list

\* C3 as stated: a burst of 'idle' events yields one onCenterChanged call and
\* one invocation, which queries the map center of the burst's last event.
C3_BurstQueriesLastIdleCenter ==
  Settled
  => /\ burst.calls = 1
     /\ cyclesSince = 1
     /\ \A c \in cycles : c.id = LatestCycle => Some(c.center) = burst.center

\* C3 as amended: a burst of 'idle' events yields one onCenterChanged call and
\* one invocation, which queries the map center read when the debounce timeout
\* fires.
C3_BurstQueriesCenterAtFire ==
  Settled
  => /\ burst.calls = 1
     /\ burst.idles >= 1
     /\ idleTimerRef = 0
     /\ cyclesSince = 1
     /\ \E c \in cycles : c.id = LatestCycle /\ c.alive /\ c.phase = "query"
     /\ \A c \in cycles : c.id = LatestCycle => Some(c.center) = mapRef

\* a burst of two 'idle' events has fired once and started one invocation
C3_Witness ==
  /\ Settled
  /\ burst.idles = 2
  /\ burst.calls = 1
  /\ cyclesSince = 1
  /\ mapCenter = Some(P1)

\* C4: when the query of the current invocation fails, the error message is
\* reported and the published list and the markers stay as they were.
C4_FailureKeepsList ==
  [][(events' # events /\ lastEvent'.kind = "queryFailed" /\ lastEvent'.alive)
     => /\ listError' = ErrorMessage
        /\ stations' = stations
        /\ markersRef' = markersRef]_vars

\* C5: while nothing but provider answers has happened since a triggering
\* event, once its invocation and all earlier ones have been answered the
\* application is quiescent: nothing in flight, loading false, its result
\* published.
C5_QuiescentAfterTrigger ==
  (/\ trigger.undisturbed
   /\ IsSome(trigger.done)
   /\ ~renderPending
   /\ \A c \in cycles : c.id > trigger.id)
  => /\ cycles = {}
     /\ ~loading
     /\ Val(trigger.done).ok => stations = Val(trigger.done).list

\* C6: an invocation is started only by a render in which the capability
\* status, the center or the user position has changed.
C6_OnlyTriggersStartCycles ==
  [][nextCycle' # nextCycle => changed \cap TriggerDeps # {}]_vars

\* C7: a debounced settle that reports the center the application already has
\* starts no invocation.
C7_SameCenterSettleStartsNothing ==
  (lastEvent.kind = "settle" /\ lastEvent.same) => cyclesSince = 0

\* C15: when the Distance Matrix call of the current invocation fails, the
\* invocation still publishes its list, enriched by the haversine fallback,
\* with an empty error message; a superseded invocation whose call fails
\* leaves the error message alone; and the error message becomes non-empty
\* only when a place query has failed.
C15_MatrixFailureNotAnError ==
  [][/\ (events' # events /\ lastEvent'.kind = "matrixFailed" /\ lastEvent'.alive)
        => /\ listError' = ""
           /\ publishedBy' = lastEvent'.id
           /\ \E c \in cycles :
                /\ c.id = lastEvent'.id
                /\ Len(c.raw) > 0
                /\ stations' = Tagged(HaversineFallback(c.origins, c.raw), c.id)
     /\ (events' # events /\ lastEvent'.kind = "matrixFailed" /\ ~lastEvent'.alive)
        => listError' = listError
     /\ (listError' # listError /\ listError' # "")
        => lastEvent'.kind = "queryFailed"]_vars

\* the current invocation's Distance Matrix call has failed: two stations are
\* published with haversine distances from the user's position, no error
C15_Witness ==
  /\ lastEvent.kind = "matrixFailed"
  /\ lastEvent.alive
  /\ publishedBy = lastEvent.id
  /\ listError = ""
  /\ Len(stations) = 2
  /\ stations[2].distanceMeters = Some(1402)
  /\ stations[2].durationText = None

\* the step in which the current invocation applies its enriched list
Applied ==
  /\ events' # events
  /\ lastEvent'.kind \in {"enriched", "matrixFailed"}
  /\ lastEvent'.alive

\* C16: the place markers on the map are exactly those of the registry, one
\* handle each, in every state; and when an invocation applies its list, the
\* registry's places are that list's places, whatever the registry held before
\* (nothing of the previous list stays on the map or in the registry).
C16_MarkersAreLastApplied ==
  [][/\ onMap' = Handles(markersRef')
     /\ Cardinality(Handles(markersRef')) = Len(markersRef')
     /\ Applied =>
          /\ Len(markersRef') = Len(stations')
          /\ \A i \in 1..Len(stations') : markersRef'[i].place = stations'[i]]_vars

\* a list with s2 and s3 has been applied after a list with s1 and s2
C16_Witness ==
  /\ prevMarkers = <<"s1", "s2">>
  /\ PlaceIds(markersRef) = <<"s2", "s3">>
  /\ onMap = Handles(markersRef)
  /\ Cardinality(onMap) = 2

\* C17: when an invocation applies its list, a place that had a marker before
\* keeps that marker: the handle registered for its id is the one registered
\* before the step.
C17_CommonIdsKeepHandle ==
  [][Applied =>
       \A i \in 1..Len(markersRef), j \in 1..Len(markersRef') :
         markersRef[i].place.place_id = markersRef'[j].place.place_id
         => markersRef'[j].handle = markersRef[i].handle]_vars

\* C18: in the render that follows a change of the selection to a station,
\* once the map's script is ready, the markers that bounce afterwards are
\* exactly the registered markers of the place whose id is the selected id
\* (none when no registered marker has that id).
C18_HighlightGoesToSelected ==
  [][(/\ mounted /\ renderPending
      /\ "selectedStationId" \in changed
      /\ IsSome(selectedStation)
      /\ status = "ready")
     => \A i \in 1..Len(markersRef') :
          markersRef'[i].animation = "BOUNCE"
          <=> markersRef'[i].place.place_id = Val(selectedStation).place_id]_vars

\* the steps of a places invocation: its query or its enrichment is answered
CycleStep ==
  /\ events' # events
  /\ lastEvent'.kind \in {"queryAnswered", "queryFailed", "enriched", "matrixFailed"}

\* C19: whenever the map exists and no render is pending, there is a
\* user-position marker if and only if a user position is known, and it sits
\* at that position; there is never more than one on the map; and no step of a
\* places invocation creates, moves or removes it.
C19_UserMarkerIffPosition ==
  [][/\ (IsSome(mapRef') /\ ~renderPending')
        => /\ IsSome(userMarkerRef') <=> IsSome(userLocation')
           /\ userMarkers' = IF IsSome(userLocation') THEN 1 ELSE 0
           /\ IsSome(userMarkerRef')
              => Val(userMarkerRef').position = Val(userLocation')
     /\ userMarkers' <= 1
     /\ CycleStep => UNCHANGED userMarkerVars]_vars

\* the user's position is known and its marker is on the map; the current
\* invocation has then applied a list of two places, and the marker is still
\* the only one, at the user's position
C19_Witness ==
  /\ IsSome(mapRef) /\ ~renderPending
  /\ userLocation = Some(P1)
  /\ userMarkerRef = Some([position |-> P1])
  /\ userMarkers = 1
  /\ lastEvent.kind = "enriched"
  /\ lastEvent.alive
  /\ Len(markersRef) = 2

\* a step in which the Places provider answers the query of an invocation
QueryStep == events' # events /\ lastEvent'.answer # "none"

\* C21: the query of an invocation is rejected exactly when the provider's
\* status is not OK, its results are not an array or the call throws; a
\* rejected query ends the invocation without enrichment (it never reaches the
\* Distance Matrix call), and when the invocation is the current one the
\* failure is published: empty list, the error message.
C21_RejectionFailsCycle ==
  [][QueryStep =>
       /\ lastEvent'.kind = "queryFailed"
          <=> lastEvent'.answer \in {"throws", "notOK", "notArray"}
       /\ lastEvent'.kind = "queryFailed" =>
            /\ \E c \in cycles : c.id = lastEvent'.id /\ c.phase = "query"
            /\ \A c \in cycles' : c.id # lastEvent'.id
            /\ lastEvent'.alive =>
                 /\ stations' = <<>>
                 /\ listError' = ErrorMessage
                 /\ publishedBy' = lastEvent'.id]_vars

\* the provider answers OK without an array to the current invocation, after a
\* list of two places had been published
C21_Witness ==
  /\ lastEvent.kind = "queryFailed"
  /\ lastEvent.answer = "notArray"
  /\ lastEvent.alive
  /\ stations = <<>>
  /\ listError = ErrorMessage
  /\ Len(markersRef) = 2
  /\ \A c \in cycles : c.id # lastEvent.id

\* C22: once the tree is unmounted no debounce timeout is pending, and the
\* debounced callback has not fired since the unmount.
C22_NoTimerAfterUnmount ==
  unmounted => /\ idleTimerRef = 0
               /\ lastEvent.kind # "settleAfterUnmount"

\* C23: at most one debounce timeout is pending in every state; an 'idle'
\* event leaves exactly one pending, the one it has just set, whether or not
\* one was pending before; and the debounced callback runs only as the firing
\* of that one timeout, once per burst: no 'idle' event has occurred between
\* the setting of the timeout and its firing.
C23_IdleResetsTheTimer ==
  [][/\ idleTimerRef' <= 1
     /\ (events' # events /\ lastEvent'.kind = "idle")
        => /\ idleTimerRef' = 1
           /\ burst'.calls = 0
     /\ (events' # events /\ lastEvent'.kind \in {"settle", "settleAfterUnmount"})
        => /\ idleTimerRef = 1
           /\ idleTimerRef' = 0
           /\ burst'.idles >= 1
           /\ burst'.calls = 1]_vars

\* a second 'idle' event has arrived while the timeout of the first was pending
C23_Witness ==
  /\ lastEvent.kind = "idle"
  /\ burst.idles = 2
  /\ burst.calls = 0
  /\ idleTimerRef = 1

\* C25: once a fix has arrived and the render it scheduled has run, and as
\* long as the map has not reported any 'idle' event (nothing else has set
\* the center), the center is a fixed position of the user, and every
\* invocation started since queries that center.
C25_FirstFixBecomesCenter ==
  (/\ mounted /\ ~renderPending
   /\ IsSome(userLocation)
   /\ burst = NoBurst)
  => /\ IsSome(mapCenter)
     /\ Val(mapCenter) \in FixPositions
     /\ \A c \in cycles : c.alive => c.center = Val(mapCenter)

\* C27: the map, the info window and the 'idle' listener are made together
\* and at most once.  In every step each of the three counts is 1 when the
\* map exists and 0 when it does not, and a step taken while the map exists
\* leaves the counts, the map and the info window object in place: a later
\* change of the center changes at most the center of that map.
C27_MapCreatedOnce ==
  [][/\ created'.maps = (IF IsSome(mapRef') THEN 1 ELSE 0)
     /\ created'.infoWindows = created'.maps
     /\ created'.idleListeners = created'.maps
     /\ IsSome(infoWindowRef') = IsSome(mapRef')
     /\ IsSome(mapRef) => created' = created /\ IsSome(mapRef')]_vars

\* a debounced settle has changed the center, the render it scheduled has
\* run and started an invocation, and there is still the one map
C27_Witness ==
  /\ lastEvent.kind = "settle" /\ ~lastEvent.same
  /\ ~renderPending /\ cyclesSince > 0
  /\ mapRef = mapCenter
  /\ created = InitMapCreates(NothingCreated)

\* C28: a click on a registered marker selects exactly the place that marker
\* was made for and leaves the info window open at that marker and at no
\* other; there is never more than one info window.
C28_ClickSelectsAndAnchors ==
  [][/\ created'.infoWindows <= 1
     /\ (events' = events + 1 /\ lastEvent'.kind = "markerClick") =>
          \E i \in 1..Len(markersRef) :
             /\ selectedStation' = Some(markersRef[i].place)
             /\ infoWindowRef' = Some([anchor |-> Some(markersRef[i].handle)])]_vars

\* the info window was open at one marker, another marker has been clicked,
\* and the window is now at the clicked marker, whose place is selected
C28_Witness ==
  /\ lastEvent.kind = "markerClick"
  /\ IsSome(prevAnchor) /\ IsSome(infoWindowRef)
  /\ Val(infoWindowRef).anchor # prevAnchor
  /\ \E i \in 1..Len(markersRef) :
       /\ Val(infoWindowRef).anchor = Some(markersRef[i].handle)
       /\ selectedStation = Some(markersRef[i].place)

\* C31: a failed query does not stop the controller.  While the error
\* message is set, a render that follows a triggering change (capability
\* status, center, user position) with the map in place starts an invocation
\* for the current center; and when the current invocation resolves, its list
\* is published, its markers are painted and the error message is cleared.
C31_FailureIsRecoverable ==
  [][/\ (/\ listError # "" /\ mounted /\ ~unmounted /\ renderPending
          /\ changed \cap TriggerDeps # {}
          /\ status = "ready" /\ IsSome(mapRef) /\ IsSome(mapCenter)
          /\ changed' = {})
         => /\ nextCycle' = nextCycle + 1
            /\ \E c \in cycles' : /\ c.id = nextCycle /\ c.alive
                                   /\ c.phase = "query"
                                   /\ c.center = Val(mapCenter)
     /\ Applied
         => /\ listError' = ""
            /\ publishedBy' = lastEvent'.id
            /\ PlaceIds(markersRef')
                 = [i \in 1..Len(stations') |-> stations'[i].place_id]]_vars

\* the message of a failed query was showing when the current invocation
\* resolved with two places: they are published and the message is gone
C31_Witness ==
  /\ lastEvent.kind = "enriched" /\ lastEvent.alive /\ lastEvent.hadError
  /\ listError = ""
  /\ Len(stations) = 2
  /\ publishedBy = lastEvent.id

\* C32: the application's center changes in two kinds of step only: the
\* initial assignment, made while there is no center yet, and a debounced
\* settle, which sets it to the map's center.  A step of an invocation
\* (answer, failure, stale or not), a change of the selection, a fix and the
\* render that creates or moves the user marker leave it as it is.
C32_CenterChannels ==
  [][/\ mapCenter' # mapCenter
         => \/ ~IsSome(mapCenter) /\ IsSome(mapCenter')
            \/ /\ events' = events + 1 /\ lastEvent'.kind = "settle"
               /\ mapCenter' = mapRef
     /\ (CycleStep \/ selectedStation' # selectedStation
           \/ userLocation' # userLocation \/ userMarkerRef' # userMarkerRef)
         => mapCenter' = mapCenter]_vars

\* a list has been published, a fix has put the user marker on the map and a
\* marker has been clicked: the center is still the initial one
C32_Witness ==
  /\ lastEvent.kind = "markerClick"
  /\ IsSome(selectedStation)
  /\ IsSome(userMarkerRef)
  /\ publishedBy > 0
  /\ mapCenter = Some(DefaultCenter)

\* the cycle of the invocation that the step just taken has advanced
Advanced(c) == c \in cycles /\ c.id = lastEvent'.id

\* the lists a query with the given limit can resolve with
Resolvable(limit) == {Take(r, limit) : r \in ProviderResults}

\* C33: the steps of an invocation come in order.  It starts with the query,
\* made for the center of the render that started it, with radius 5000 and
\* limit 50, and remembers the user position of that render.  When the query
\* resolves and the network-aware method is used, the resolved places and the
\* remembered origin go to the enrichment, and nothing is published or painted
\* in that step.  The list and the markers change only in the step in which
\* the enrichment has resolved, both in that one step, and the list is the
\* enrichment of the resolved places with the remembered origin.
C33_StepsInOrder ==
  [][/\ nextCycle' # nextCycle
         => \E c \in cycles' \ cycles :
               /\ c.id = nextCycle /\ c.phase = "query" /\ c.raw = <<>>
               /\ c.center = Val(mapCenter)
               /\ c.radius = 5000 /\ c.limit = 50
               /\ c.origins = userLocation
     /\ (events' # events /\ lastEvent'.kind = "queryAnswered")
         => /\ \E c \in cycles : \E d \in cycles' \ cycles :
                 /\ Advanced(c) /\ c.phase = "query"
                 /\ d = [c EXCEPT !.phase = "matrix", !.raw = d.raw]
                 /\ d.raw \in Resolvable(c.limit)
            /\ UNCHANGED <<stations, listError, markersRef, onMap, publishedBy>>
     /\ (stations' # stations \/ Handles(markersRef') # Handles(markersRef))
         => /\ CycleStep
            /\ lastEvent'.kind # "queryAnswered"
            /\ lastEvent'.alive
     /\ Applied
         => \E c \in cycles \ cycles' :
               /\ Advanced(c)
               /\ publishedBy' = c.id
               /\ PlaceIds(markersRef')
                    = [i \in 1..Len(stations') |-> stations'[i].place_id]
               /\ IF c.phase = "query"
                  THEN \E raw \in Resolvable(c.limit) :
                         stations' = Tagged(computeDistancesIfEnabled(
                                              c.origins, raw, flags, DMThrows), c.id)
                  ELSE \E dm \in MatrixAnswers(Len(c.raw)) :
                         stations' = Tagged(computeDistancesIfEnabled(
                                              c.origins, c.raw, flags, dm), c.id)]_vars

\* an invocation that went through the network-aware method has applied its
\* two places with the distances of the provider
C33_Witness ==
  /\ lastEvent.kind = "enriched" /\ lastEvent.alive
  /\ flags.enableDistanceMatrix
  /\ IsSome(userLocation)
  /\ publishedBy = lastEvent.id
  /\ Len(stations) = 2 /\ Len(markersRef) = 2
  /\ stations[1].distanceText = Some("1.2 km")

\* C35: in every state in which the current invocation (the one the fetch
\* effect last started, not superseded) is still in flight, the loading flag
\* is true; and a step that sets the flag to false completes that invocation.
C35_LoadingWhileCurrentInFlight ==
  [][/\ (\E c \in cycles' : c.alive) => loading'
     /\ (loading /\ ~loading')
         => \E c \in cycles \ cycles' : c.alive /\ c.id = lastEvent'.id]_vars

\* C37: in every state in which no invocation that can still apply its
\* result is in flight (superseded ones, whose results are discarded, do not
\* count), the registered markers are those of the published list: as many,
\* for the same places, in the same order, and all of them on the map.
C37_MarkersMatchList ==
  (\A c \in cycles : ~c.alive)
  => /\ PlaceIds(markersRef) = [i \in 1..Len(stations) |-> stations[i].place_id]
     /\ onMap = Handles(markersRef)

\* nothing of the map exists: no map, no info window, no idle listener, no
\* invocation of the fetch effect's body so far, no place or user marker
NothingOnMap ==
  /\ mapRef = None /\ created = NothingCreated
  /\ nextCycle = 1 /\ cycles = {}
  /\ markersRef = <<>> /\ onMap = {}
  /\ userMarkerRef = None /\ userMarkers = 0

\* C39: as long as the script's status is not 'ready' or the application has
\* no center, no map has been created, no place query has been issued and no
\* marker has been created; once the status is 'error' it stays 'error', so
\* no place query is ever issued.
C39_NothingBeforeReady ==
  /\ []((status # "ready" \/ ~IsSome(mapCenter)) => NothingOnMap)
  /\ [][status = "error" => status' = "error"]_vars

\* the script failed, the application has rendered with a center and with
\* the user's position, and still nothing of the map exists
C39_Witness ==
  /\ status = "error" /\ Quiet
  /\ IsSome(mapCenter) /\ IsSome(userLocation)
  /\ lastEvent.kind = "geoFix"
  /\ NothingOnMap

(***************************************************************************)
(* Properties of computeDistancesIfEnabled (checked under EnrichSpec).      *)
(***************************************************************************)
CallResolved == callPc = "resolved"
CallReachedProvider == IsSome(callDM)
HasPosition(p) == p.shape \in {"geometry", "location"}

\* the provider call ended in a non-OK status, a null response or an exception
CallProviderFailed ==
  /\ CallReachedProvider
  /\ \/ Val(callDM).kind = "throw"
     \/ Val(callDM).status # "OK"
     \/ Val(callDM).res = None

\* C8: with a known origin, when the flag disables the network-aware method or
\* its call fails, every output place that has a position carries the haversine
\* distance from the origin to that position and the text formatted from it,
\* and no output place carries a durationText.
C8_FallbackIsHaversine ==
  (/\ CallResolved
   /\ Len(callOrigins) > 0
   /\ (~callFlags.enableDistanceMatrix \/ CallProviderFailed))
  => \A i \in 1..Len(callPlaces) :
       LET out == Val(callResult)[i]
           p == callPlaces[i]
           d == haversineMeters(callOrigins[1].lat, callOrigins[1].lng,
                                Val(p.pos).lat, Val(p.pos).lng)
       IN  /\ out.durationText = None
           /\ HasPosition(p) =>
                 /\ out.distanceMeters = Some(d)
                 /\ out.distanceText = Some(formatDistance(Some(d)))

C8_Witness ==
  /\ CallResolved
  /\ CallProviderFailed
  /\ Val(callDM).status = "OVER_QUERY_LIMIT"
  /\ callOrigins = <<P0>>
  /\ callPlaces = <<S1, S3>>
  /\ Val(callResult)[1].distanceMeters = Some(854)
  /\ Val(callResult)[2].distanceText = Some("11 km")

\* the provider answered OK with one well-formed element per destination
CallProviderSucceeded ==
  /\ CallReachedProvider
  /\ Val(callDM).kind = "callback"
  /\ Val(callDM).status = "OK"
  /\ IsSome(Val(callDM).res)
  /\ Len(Val(Val(callDM).res).rows) > 0
  /\ LET els == Val(Val(callDM).res).rows[1].elements
     IN  /\ Len(els) = Len(callPlaces)
         /\ \A i \in 1..Len(els) :
              /\ IsSome(els[i].distance)
              /\ Val(els[i].distance).text # ""
              /\ IsSome(els[i].duration)

\* C9: when the network-aware method succeeds, output place i carries the
\* distanceMeters, distanceText and durationText of provider element i.
C9_IndexAligned ==
  (CallResolved /\ CallProviderSucceeded)
  => LET els == Val(Val(callDM).res).rows[1].elements
     IN  \A i \in 1..Len(callPlaces) :
           LET out == Val(callResult)[i]
           IN  /\ out.distanceMeters = Some(Val(els[i].distance).value)
               /\ out.distanceText = Some(Val(els[i].distance).text)
               /\ out.durationText = Some(Val(els[i].duration).text)

C9_Witness ==
  /\ CallResolved
  /\ CallProviderSucceeded
  /\ Len(callPlaces) = 2
  /\ Val(callResult)[1].distanceMeters = Some(2500)
  /\ Val(callResult)[2].distanceMeters = Some(1200)
  /\ Val(callResult)[2].durationText = Some("3 mins")

\* C10: for every input the result has the length of the input list and its
\* element i is input place i (same id, name and position): nothing is
\* dropped, added or reordered.
C10_SameLengthAndOrder ==
  CallResolved
  => /\ Len(Val(callResult)) = Len(callPlaces)
     /\ \A i \in 1..Len(callPlaces) :
          /\ Val(callResult)[i].place_id = callPlaces[i].place_id
          /\ Val(callResult)[i].name = callPlaces[i].name
          /\ Val(callResult)[i].shape = callPlaces[i].shape
          /\ Val(callResult)[i].pos = callPlaces[i].pos

\* an OK answer with fewer elements than destinations
C10_Witness ==
  /\ CallResolved
  /\ CallReachedProvider
  /\ Val(callDM).status = "OK"
  /\ IsSome(Val(callDM).res)
  /\ Len(Val(Val(callDM).res).rows) > 0
  /\ Len(Val(Val(callDM).res).rows[1].elements) = 1
  /\ callPlaces = <<S2, S1>>
  /\ Len(Val(callResult)) = 2

\* C11: with no known origin, for either flag value, the call never reaches
\* the network-aware provider, and it resolves with every place carrying no
\* distanceMeters, no distanceText and no durationText.
C11_NoOriginNoDistances ==
  Len(callOrigins) = 0
  => /\ ~CallReachedProvider
     /\ CallResolved =>
          /\ Len(Val(callResult)) = Len(callPlaces)
          /\ \A i \in 1..Len(callPlaces) :
               /\ Val(callResult)[i].distanceMeters = None
               /\ Val(callResult)[i].distanceText = None
               /\ Val(callResult)[i].durationText = None

\* the flag is on, two places with positions, no origin: resolved
C11_Witness ==
  /\ CallResolved
  /\ callOrigins = <<>>
  /\ callFlags.enableDistanceMatrix
  /\ callPlaces = <<S1, S4>>
  /\ Val(callResult)[1].distanceMeters = None

\* C12: a resolved call has reached the network-aware provider if and only if
\* the flag is true, an origin is known and the place list is non-empty; in
\* every other case the result is the closed-form (haversine) one.
C12_ProviderCalledIff ==
  CallResolved
  => /\ CallReachedProvider <=>
          (/\ callFlags.enableDistanceMatrix
           /\ Len(callOrigins) > 0
           /\ Len(callPlaces) > 0)
     /\ ~CallReachedProvider =>
          Val(callResult) = HaversineFallback(callOrigins, callPlaces)

\* the flag is off, an origin is known: no provider call, haversine distances
C12_Witness ==
  /\ CallResolved
  /\ ~callFlags.enableDistanceMatrix
  /\ callOrigins = <<P1>>
  /\ callPlaces = <<S2, S5>>
  /\ ~CallReachedProvider
  /\ Val(callResult)[1].distanceMeters = Some(1402)
  /\ Val(callResult)[2].distanceMeters = None

\* the provider answered OK with a response object
CallProviderOK ==
  /\ CallReachedProvider
  /\ Val(callDM).kind = "callback"
  /\ Val(callDM).status = "OK"
  /\ IsSome(Val(callDM).res)

\* C13: when the provider reports OK but the payload has no rows, no elements
\* or fewer elements than destinations, every place that has a position
\* carries the haversine distance from the origin and the text formatted
\* from it.
C13_MalformedFallsBack ==
  (/\ CallResolved
   /\ CallProviderOK
   /\ Len(ResponseElements(Val(callDM))) < Len(callPlaces))
  => \A i \in 1..Len(callPlaces) :
       LET out == Val(callResult)[i]
           p == callPlaces[i]
           d == haversineMeters(callOrigins[1].lat, callOrigins[1].lng,
                                Val(p.pos).lat, Val(p.pos).lng)
       IN  HasPosition(p) =>
             /\ out.distanceMeters = Some(d)
             /\ out.distanceText = Some(formatDistance(Some(d)))

\* C14: when the provider reports OK with one element per destination and
\* some of the elements carry no distance, the result is the haversine
\* fallback of the whole batch.
C14_PartialFailureFallsBackWholesale ==
  (/\ CallResolved
   /\ CallProviderOK
   /\ LET els == ResponseElements(Val(callDM))
      IN  /\ Len(els) = Len(callPlaces)
          /\ \E i \in 1..Len(els) : ~IsSome(els[i].distance))
  => Val(callResult) = HaversineFallback(callOrigins, callPlaces)

\* C30: in the step in which a call resolves, whichever path it took, the
\* caller's list is what it was before the call, and output place i has the
\* id, the name and the position (with its shape) that input place i had
\* before the call.
C30_EnrichmentFrame ==
  [][(callPc = "called" /\ callPc' = "resolved")
     => /\ callPlaces' = callPlaces
        /\ callOrigins' = callOrigins
        /\ DOMAIN Val(callResult') = DOMAIN callPlaces
        /\ \A i \in DOMAIN callPlaces :
             LET out == Val(callResult')[i]
             IN  /\ out.place_id = callPlaces[i].place_id
                 /\ out.name = callPlaces[i].name
                 /\ out.shape = callPlaces[i].shape
                 /\ out.pos = callPlaces[i].pos]_vars

\* the network-aware call failed and the fallback enriched two places with
\* distances: the output differs from the input, the input list is as drawn
C30_Witness ==
  /\ callPc = "resolved"
  /\ IsSome(callDM) /\ DistanceMatrixFailed(Val(callDM))
  /\ callPlaces = <<S1, S4>>
  /\ Len(Val(callResult)) = 2
  /\ \A i \in 1..2 : IsSome(Val(callResult)[i].distanceMeters)

(***************************************************************************)
(* Properties of searchNearbyGasStations (checked under SearchSpec).       *)
(***************************************************************************)
\* C20: a resolved search holds the first min(limit, n) entries of the
\* provider's n results in the provider's order: it has at most limit entries
\* and is a prefix of the provider's list.
C20_ResolvesWithPrefix ==
  searchPc = "resolved"
  => LET provided == Val(searchAnswer.results)
         trimmed == Val(searchResult)
     IN  /\ Len(trimmed) = Min(searchLimit, Len(provided))
         /\ Len(trimmed) <= searchLimit
         /\ \A i \in 1..Len(trimmed) : trimmed[i] = provided[i]

\* three results, limit two: the first two in the provider's order
C20_Witness ==
  /\ searchPc = "resolved"
  /\ searchLimit = 2
  /\ Val(searchAnswer.results) = <<S3, S1, S2>>
  /\ Val(searchResult) = <<S3, S1>>

(***************************************************************************)
(* Properties of the start without a geolocation fix (checked under        *)
(* NoFixSpec).                                                             *)
(***************************************************************************)
NoDistances(list) ==
  \A i \in 1..Len(list) :
    /\ list[i].distanceMeters = None
    /\ list[i].distanceText = None
    /\ list[i].durationText = None

GeoErrorCodes ==
  {"PERMISSION_DENIED", "POSITION_UNAVAILABLE", "TIMEOUT", "UNSUPPORTED", "UNKNOWN"}

\* C26: whenever the hook reports an error, its code is one of the five codes
\* and no position is held (coords is null).
C26_ErrorMeansNoOrigin ==
  IsSome(geoError)
  => /\ Val(geoError) \in GeoErrorCodes
     /\ coords = None

\* the request whose callback the step just taken has run
Answered(id) == id \in geoPending /\ id \notin geoPending'

\* C36: the callback of a request that is no longer the latest changes
\* neither coords nor error, in whatever order the callbacks arrive.  The
\* callback of the latest request either succeeds, and then coords is one of
\* the browser's positions and error is null, or fails, and then error is set
\* and coords stays.  coords changes in no other step.
C36_StaleCallbacksIgnored ==
  [][/\ \A id \in geoPending :
          Answered(id)
          => IF id # requestRef
             THEN coords' = coords /\ geoError' = geoError
             ELSE \/ coords' \in {Some(p) : p \in GeoPositions} /\ geoError' = None
                  \/ coords' = coords /\ IsSome(geoError')
     /\ coords' # coords => Answered(requestRef) /\ geoError' = None]_vars

\* locate() was called twice and the callback of the first request came while
\* the second was outstanding: nothing was stored
C36_Witness ==
  /\ requestRef = 2
  /\ geoPending = {2}
  /\ coords = None
  /\ geoError = None

(***************************************************************************)
(* Properties of formatDistance (checked under FormatSpec).                *)
(***************************************************************************)
\* the decimal string with one digit after the point of a number of tenths
OneDecimal(tenths) == ToString(tenths \div 10) \o "." \o ToString(tenths % 10)

\* C29: for a whole number of meters m, formatDistance(m) is "m m" when
\* m < 1000; when 1000 <= m < 10000 it is "t km" for a one-decimal number t of
\* kilometers nearest to m (at most 50 m away); when m >= 10000 it is "k km"
\* for a whole number k of kilometers nearest to m (at most 500 m away).
\* 999 gives "999 m", 1000 "1.0 km", 9999 "10.0 km" and 10000 "10 km".
C29_FormatByRange ==
  (fmtPc = "returned" /\ IsSome(fmtMeters))
  => LET m == Val(fmtMeters)
     IN  /\ m < 1000 => fmtResult = ToString(m) \o " m"
         /\ (1000 <= m /\ m < 10000)
              => \E t \in 10..100 :
                    /\ 100 * t - m \in -50..50
                    /\ fmtResult = OneDecimal(t) \o " km"
         /\ m >= 10000
              => \E k \in 10..(MaxMeters \div 1000 + 1) :
                    /\ 1000 * k - m \in -500..500
                    /\ fmtResult = ToString(k) \o " km"
         /\ m = 999 => fmtResult = "999 m"
         /\ m = 1000 => fmtResult = "1.0 km"
         /\ m = 9999 => fmtResult = "10.0 km"
         /\ m = 10000 => fmtResult = "10 km"

\* 9999 m has been formatted: one decimal, rounded up to "10.0 km"
C29_Witness ==
  /\ fmtPc = "returned"
  /\ fmtMeters = Some(9999)
  /\ fmtResult = "10.0 km"

(***************************************************************************)
(* Properties of the center synchronization (checked under SyncSpec).      *)
(***************************************************************************)
Panned == IsSome(mapRef) /\ mapRef # Some(DefaultCenter)
Converged ==
  /\ mapCenter = mapRef
  /\ ~mapMoving /\ idleTimerRef = 0
  /\ ~renderPending

\* C34: the synchronization of the center has no feedback loop.  A settle
\* sets the application's center to the map's center and leaves the map
\* alone; a render that runs while the map exists neither moves the map nor
\* makes it emit another 'idle'; and after the user's pan the system comes to
\* rest for good with the application's center equal to the map's center, no
\* movement to report and no timeout pending.
C34_SyncConverges ==
  /\ [][/\ (events' # events /\ lastEvent'.kind = "settle")
            => mapCenter' = mapRef /\ mapRef' = mapRef
        /\ (IsSome(mapRef) /\ renderPending /\ changed' = {})
            => mapRef' = mapRef /\ mapMoving' = mapMoving]_vars
  /\ Panned ~> [](Panned /\ Converged)

\* the pan has been reported by a settle, the render has run and all is quiet
C34_Witness ==
  /\ Panned /\ Converged
  /\ lastEvent.kind = "settle" /\ ~lastEvent.same
  /\ mapCenter = Some(P1)
  /\ cyclesSince > 0

(***************************************************************************)
(* Properties of StationList's pagination, under PageSpec.                 *)
(***************************************************************************)

\* C38: after any sequence of Next clicks, Prev clicks and replacements of
\* the stations list, the current page is one of 1..pages, and the visible
\* page holds at least one station whenever the list is not empty.
C38_PageWithinPages ==
  /\ page \in 1..pages(stationsLength)
  /\ stationsLength > 0 => view(stationsLength, page) # {}

====
